---- MODULE Spec2Model ----
(***************************************************************************)
(* A model of run.py: the valuation of a transaction ledger against a NAV  *)
(* series (calculate_portfolio_value), the fuzzy scheme matcher            *)
(* (fuzzy_match_scheme) and the comparison of the held instrument with an  *)
(* alternative one (compare_portfolios).                                   *)
(*                                                                         *)
(* Data frames are sequences of records (one record per row, one field per *)
(* column).  Floats are integers; the amounts and prices are drawn from    *)
(* sets in which every division the code performs is exact.  A float that  *)
(* can be NaN (a column merge_asof fills for unmatched rows, and what is   *)
(* computed from it) is a record [isna, val].  A value that can be None is *)
(* a sequence of length 0 (None) or 1 (Some).  A call ends in an outcome:  *)
(* a returned value or a raised exception.                                 *)
(***************************************************************************)
EXTENDS Integers, Sequences, FiniteSets, TLC

VARIABLES
    call,                   \* a direct call of one function: its arguments
    ret,                    \* None, or Some(outcome of that call)
    transactions,           \* compare_portfolios: the ledger read_transactions returned
    pc,                     \* compare_portfolios: the next step
    my_nav_data,            \* None, or Some(frame) from fetch_nav_data(my_stock_api)
    my_scheme_name,         \* None, or Some(name)
    potential_nav_data,     \* None, or Some(frame) from fetch_nav_data(potential_stock_api)
    potential_scheme_name,  \* None, or Some(name)
    matched_scheme,         \* None, or Some(name): what fuzzy_match_scheme returned
    input_transactions,     \* the ledger rows of the matched scheme
    my_portfolio,           \* None, or Some(<<my_portfolio_value, my_detailed_calc>>)
    transactions_potential, \* input_transactions with the recomputed Units
    result,                 \* None, or Some(outcome of compare_portfolios)
    events                  \* the calls compare_portfolios made and the errors it logged

vars == <<call, ret, transactions, pc, my_nav_data, my_scheme_name,
          potential_nav_data, potential_scheme_name, matched_scheme,
          input_transactions, my_portfolio, transactions_potential, result, events>>

compare_vars == <<transactions, pc, my_nav_data, my_scheme_name,
                  potential_nav_data, potential_scheme_name, matched_scheme,
                  input_transactions, my_portfolio, transactions_potential, result, events>>

----------------------------------------------------------------------------
(* Bounds of the model. *)

\* compare_portfolios: the dates of the ledger and of the two feeds are 1..MaxDate
MaxDate == 2
\* the direct calls of the valuation and of the lookup: dates are 1..MaxQueryDate
MaxQueryDate == 4
\* the direct calls of the valuation and of the lookup: a NAV frame has at
\* most MaxPoints rows
MaxPoints == 2
\* the direct calls of fuzzy_match_scheme: a name has at most MaxTokens words
MaxTokens == 2

----------------------------------------------------------------------------
(* Values. *)

None == <<>>
Some(x) == <<x>>

Return(v) == [kind |-> "return", value |-> v]
Raise(e) == [kind |-> "raise", exc |-> e]

NaN == [isna |-> TRUE, val |-> 0]
Num(x) == [isna |-> FALSE, val |-> x]

\* float division and subtraction on columns that may hold NaN
FDiv(a, b) == IF a.isna \/ b.isna THEN NaN ELSE Num(a.val \div b.val)
FSub(a, b) == IF a.isna \/ b.isna THEN NaN ELSE Num(a.val - b.val)

Range(s) == {s[i] : i \in 1..Len(s)}
SetMin(S) == CHOOSE x \in S : \A y \in S : x <= y
SetMax(S) == CHOOSE x \in S : \A y \in S : y <= x

RECURSIVE SumSeq(_)
SumSeq(s) == IF s = <<>> THEN 0 ELSE Head(s) + SumSeq(Tail(s))

\* the sequences over S of a length in lens
SeqsOf(S, lens) == UNION {[1..n -> S] : n \in lens}

----------------------------------------------------------------------------
(* pandas. *)

\* DataFrame.sort_values(by) with the default kind='quicksort', which is not
\* stable: every ordering of df that is ascending in the key column is a
\* possible result, rows with equal keys in any order.
sort_values(df, by) ==
    LET n == Len(df)
        perms == {p \in [1..n -> 1..n] :
                     /\ \A i, j \in 1..n : i # j => p[i] # p[j]
                     /\ \A i \in 1..(n - 1) : df[p[i]][by] <= df[p[i + 1]][by]}
    IN  IF n = 0 THEN {<<>>} ELSE {[i \in 1..n |-> df[p[i]]] : p \in perms}

\* the position in right (sorted on date) that direction='backward' would
\* match to date d: the last row with date <= d; 0 when there is none
backward_match(right, d) ==
    LET S == {j \in 1..Len(right) : right[j].date <= d}
    IN  IF S = {} THEN 0 ELSE SetMax(S)

\* the position in right (sorted on date) that direction='forward' matches to
\* date d: the first row with date >= d; 0 when there is none
forward_match(right, d) ==
    LET S == {j \in 1..Len(right) : right[j].date >= d}
    IN  IF S = {} THEN 0 ELSE SetMin(S)

\* pd.merge_asof(left, right, left_on='Transaction Date', right_on='date',
\* direction='forward') on sorted frames: a left join, every left row is kept
\* and an unmatched row gets NaN in the columns of right
merge_asof(left, right) ==
    IF left = <<>> THEN <<>>
    ELSE [i \in 1..Len(left) |->
            LET j == forward_match(right, left[i].Transaction_Date)
            IN  IF j = 0
                THEN left[i] @@ [date |-> NaN, nav |-> NaN]
                ELSE left[i] @@ [date |-> Num(right[j].date), nav |-> Num(right[j].nav)]]

----------------------------------------------------------------------------
(* calculate_portfolio_value *)

\* line 74, with 'and' for 'or'
empty_inputs_and(txs, nav_data) == txs = <<>> /\ nav_data = <<>>

\* line 74: transactions.empty or nav_data.empty
empty_inputs(txs, nav_data) == txs = <<>> \/ nav_data = <<>>

\* lines 90-91
with_current(row, current_nav) ==
    row @@ [Current_NAV |-> current_nav, Current_Value |-> row.Units * current_nav]

\* lines 94-96
with_potential(row) ==
    LET original == FDiv(Num(row.Gross_Amount), row.nav)
    IN  row @@ [Original_Units |-> original,
                Units_Difference |-> FSub(Num(row.Units), original),
                Value_Difference |-> row.Current_Value - row.Gross_Amount]

\* lines 78-100, for one result of each of the two sorts of line 78 and 79
value_rows(sorted_txs, sorted_nav, nav_data, is_potential) ==
    LET merged == merge_asof(sorted_txs, sorted_nav)
    IN  IF merged = <<>> THEN Return(<<0, <<>>>>)
        ELSE IF nav_data = <<>> THEN Raise("IndexError")
        ELSE LET current_nav == nav_data[Len(nav_data)].nav
                 valued == [i \in 1..Len(merged) |-> with_current(merged[i], current_nav)]
                 rows == IF is_potential
                         THEN [i \in 1..Len(valued) |-> with_potential(valued[i])]
                         ELSE valued
                 total_value == SumSeq([i \in 1..Len(rows) |-> rows[i].Current_Value])
             IN  Return(<<total_value, rows>>)

\* the outcomes of calculate_portfolio_value(transactions, nav_data, is_potential)
calculate_portfolio_value(txs, nav_data, is_potential) ==
    IF empty_inputs(txs, nav_data) THEN {Return(<<0, <<>>>>)}
    ELSE {value_rows(st, sn, nav_data, is_potential) :
            st \in sort_values(txs, "Transaction_Date"),
            sn \in sort_values(nav_data, "date")}

----------------------------------------------------------------------------
(* The per-transaction lookup of compare_portfolios, line 136. *)

\* potential_navs.loc[d:] on the date-sorted index: the rows from the first
\* one whose date is not before d
loc_from(nav_data, d) ==
    SubSeq(nav_data, 1 + Cardinality({j \in 1..Len(nav_data) : nav_data[j].date < d}),
           Len(nav_data))

\* line 136, with .iloc[-1] for .iloc[0]
nearest_forward_last(nav_data, d) ==
    LET tail == loc_from(nav_data, d)
    IN  IF tail = <<>> THEN Raise("IndexError") ELSE Return(tail[Len(tail)].nav)

\* potential_navs.loc[d:].iloc[0]: .iloc[0] of an empty Series raises IndexError
nearest_forward(nav_data, d) ==
    LET tail == loc_from(nav_data, d)
    IN  IF tail = <<>> THEN Raise("IndexError") ELSE Return(tail[1].nav)

----------------------------------------------------------------------------
(* fuzzywuzzy, as fuzzy_match_scheme uses it (line 103).  A name is a       *)
(* sequence of words and a word is a letter (a positive number); a          *)
(* processed string is a sequence of characters, 0 being the space.         *)

Space == <<0>>

RECURSIVE insert_sorted(_, _)
insert_sorted(w, ws) ==
    IF ws = <<>> THEN <<w>>
    ELSE IF w <= Head(ws) THEN <<w>> \o ws
    ELSE <<Head(ws)>> \o insert_sorted(w, Tail(ws))

RECURSIVE sorted_tokens(_)
sorted_tokens(name) ==
    IF name = <<>> THEN <<>> ELSE insert_sorted(Head(name), sorted_tokens(Tail(name)))

RECURSIVE join(_)
join(tokens) ==
    IF tokens = <<>> THEN <<>>
    ELSE IF Len(tokens) = 1 THEN <<Head(tokens)>>
    ELSE <<Head(tokens)>> \o Space \o join(Tail(tokens))

\* fuzz._process_and_sort: " ".join(sorted(s.split()))
process_and_sort(name) == join(sorted_tokens(name))

\* difflib.SequenceMatcher.find_longest_match: the longest block a[i..i+k-1] =
\* b[j..j+k-1]; of the longest ones the one that starts earliest in a, and of
\* those the one that starts earliest in b
find_longest_match(a, b) ==
    LET blocks == {blk \in (1..Len(a)) \X (1..Len(b)) \X (1..Len(a)) :
                     /\ blk[1] + blk[3] - 1 <= Len(a)
                     /\ blk[2] + blk[3] - 1 <= Len(b)
                     /\ \A x \in 0..(blk[3] - 1) : a[blk[1] + x] = b[blk[2] + x]}
    IN  IF blocks = {} THEN <<1, 1, 0>>
        ELSE CHOOSE blk \in blocks : \A o \in blocks :
                \/ blk[3] > o[3]
                \/ blk[3] = o[3] /\ blk[1] < o[1]
                \/ blk[3] = o[3] /\ blk[1] = o[1] /\ blk[2] <= o[2]

\* the total size of SequenceMatcher.get_matching_blocks: the longest block,
\* then the same to its left and to its right
RECURSIVE matching_size(_, _)
matching_size(a, b) ==
    IF a = <<>> \/ b = <<>> THEN 0
    ELSE LET blk == find_longest_match(a, b)
         IN  IF blk[3] = 0 THEN 0
             ELSE blk[3]
                  + matching_size(SubSeq(a, 1, blk[1] - 1), SubSeq(b, 1, blk[2] - 1))
                  + matching_size(SubSeq(a, blk[1] + blk[3], Len(a)),
                                  SubSeq(b, blk[2] + blk[3], Len(b)))

\* utils.intr(100 * 2.0 * m / t): Python's round, halves to the even integer
intr_percent(m, t) ==
    LET q == (200 * m) \div t
        r == (200 * m) % t
    IN  IF 2 * r < t THEN q
        ELSE IF 2 * r > t THEN q + 1
        ELSE IF q % 2 = 0 THEN q ELSE q + 1

\* fuzz.ratio: 100 for equal strings, 0 when one is empty, else the rounded
\* percentage 2*M/T of SequenceMatcher
ratio(s1, s2) ==
    IF s1 = s2 THEN 100
    ELSE IF s1 = <<>> \/ s2 = <<>> THEN 0
    ELSE intr_percent(matching_size(s1, s2), Len(s1) + Len(s2))

\* fuzz.token_sort_ratio
token_sort_ratio(s1, s2) == ratio(process_and_sort(s1), process_and_sort(s2))

\* process.extractOne(query, choices, scorer=fuzz.token_sort_ratio): None for
\* no choices, else the first choice of the highest score, with its score
extractOne(query, choices) ==
    IF choices = <<>> THEN None
    ELSE LET score == [i \in 1..Len(choices) |-> token_sort_ratio(query, choices[i])]
             best == SetMax(Range(score))
             first == SetMin({i \in 1..Len(choices) : score[i] = best})
         IN  Some(<<choices[first], best>>)

\* line 102: threshold=70
default_threshold == 70

\* line 104, with > for >=
above_threshold_strict(score, threshold) == score > threshold

\* line 104: best_match[1] >= threshold
above_threshold(score, threshold) == score >= threshold

\* line 105, returning the name that was looked for
matched_name_query(scheme_name, best_match) == scheme_name

\* line 105: return best_match[0]
matched_name(scheme_name, best_match) == best_match[1]

\* lines 102-106
fuzzy_match_scheme(scheme_name, transactions_schemes, threshold) ==
    LET best_match == extractOne(scheme_name, transactions_schemes)
    IN  IF best_match # None /\ above_threshold(best_match[1][2], threshold)
        THEN Some(matched_name(scheme_name, best_match[1]))
        ELSE None

----------------------------------------------------------------------------
(* The inputs. *)

Prices == {1, 2}
Amounts == {[Units |-> 1, Gross_Amount |-> 4], [Units |-> 3, Gross_Amount |-> 2]}
Letters == {1, 2}

\* the rows read_transactions can return (lines 38-44): a date, a scheme and
\* two numbers
TransactionRows(dates, schemes, amounts) ==
    {[Transaction_Date |-> d, Scheme |-> s, Units |-> a.Units,
      Gross_Amount |-> a.Gross_Amount] : d \in dates, s \in schemes, a \in amounts}

\* the rows of data['data'] (lines 60-62): a date and a nav
NavRows(dates) == {[date |-> d, nav |-> p] : d \in dates, p \in Prices}

\* the scheme names: up to n one-letter words
Names(n) == SeqsOf(Letters, 1..n)

Idle ==
    /\ transactions = <<>>
    /\ pc = "idle"
    /\ my_nav_data = None
    /\ my_scheme_name = None
    /\ potential_nav_data = None
    /\ potential_scheme_name = None
    /\ matched_scheme = None
    /\ input_transactions = <<>>
    /\ my_portfolio = None
    /\ transactions_potential = <<>>
    /\ result = None
    /\ events = {}

----------------------------------------------------------------------------
(* Direct calls of calculate_portfolio_value and of the lookup of line 136. *)

QueryDates == 1..MaxQueryDate
FrameSizes == 0..2
PointCounts == 0..MaxPoints

ValuationCalls ==
    {[fn |-> "calculate_portfolio_value", transactions |-> t, nav_data |-> n,
      is_potential |-> b] :
        t \in SeqsOf(TransactionRows(QueryDates, {<<1>>}, Amounts), FrameSizes),
        n \in SeqsOf(NavRows(QueryDates), PointCounts),
        b \in BOOLEAN}

\* the lookup reads a frame fetch_nav_data has sorted (line 63)
LookupCalls ==
    {[fn |-> "nearest_forward", nav_data |-> n, date |-> d] :
        n \in UNION {sort_values(raw, "date") :
                        raw \in SeqsOf(NavRows(QueryDates), PointCounts)},
        d \in QueryDates}

InitValuation ==
    /\ call \in ValuationCalls \cup LookupCalls
    /\ ret = None
    /\ Idle

CallCalculatePortfolioValue ==
    /\ call.fn = "calculate_portfolio_value"
    /\ ret = None
    /\ \E out \in calculate_portfolio_value(call.transactions, call.nav_data,
                                            call.is_potential) :
          ret' = Some(out)
    /\ UNCHANGED <<call, compare_vars>>

CallNearestForward ==
    /\ call.fn = "nearest_forward"
    /\ ret = None
    /\ ret' = Some(nearest_forward(call.nav_data, call.date))
    /\ UNCHANGED <<call, compare_vars>>

NextValuation == CallCalculatePortfolioValue \/ CallNearestForward

SpecValuation == InitValuation /\ [][NextValuation]_vars

----------------------------------------------------------------------------
(* Direct calls of fuzzy_match_scheme. *)

Thresholds == {0, 34, 50, 67, 70, 100, 101}
ChoiceCounts == 0..2

\* Series.unique() holds no name twice
FuzzyCalls ==
    {[fn |-> "fuzzy_match_scheme", scheme_name |-> q, transactions_schemes |-> c,
      threshold |-> th] :
        q \in Names(MaxTokens),
        c \in {x \in SeqsOf(Names(MaxTokens), ChoiceCounts) :
                 \A i, j \in 1..Len(x) : i # j => x[i] # x[j]},
        th \in Thresholds}

InitFuzzy ==
    /\ call \in FuzzyCalls
    /\ ret = None
    /\ Idle

CallFuzzyMatchScheme ==
    /\ call.fn = "fuzzy_match_scheme"
    /\ ret = None
    /\ ret' = Some(Return(fuzzy_match_scheme(call.scheme_name, call.transactions_schemes,
                                             call.threshold)))
    /\ UNCHANGED <<call, compare_vars>>

NextFuzzy == CallFuzzyMatchScheme

SpecFuzzy == InitFuzzy /\ [][NextFuzzy]_vars

----------------------------------------------------------------------------
(* compare_portfolios, called by main with the ledger read_transactions     *)
(* returned, which main has checked not to be empty (line 172).             *)

Dates == 1..MaxDate
LedgerSizes == 1..2
FeedSizes == 1..2
HeldScheme == <<1, 2>>
OtherScheme == <<2>>
OtherAmounts == {[Units |-> 2, Gross_Amount |-> 2]}
HeldNames == {<<2, 1>>, <<1>>}
PotentialNames == {<<2, 2>>}

\* the ledger holds rows of the scheme the held feed is about and of another one
Ledgers ==
    SeqsOf(TransactionRows(Dates, {HeldScheme}, Amounts)
           \cup TransactionRows(Dates, {OtherScheme}, OtherAmounts), LedgerSizes)

\* what requests.get answers: a RequestException, or a document with the
\* rows of data['data'] in any order and meta['scheme_name']
Responses(names) ==
    {[ok |-> FALSE]}
    \cup {[ok |-> TRUE, data |-> raw, scheme_name |-> nm] :
            raw \in SeqsOf(NavRows(Dates), FeedSizes), nm \in names}

\* lines 54-71: the outcomes of fetch_nav_data, <<nav_data, scheme_name>>
fetch_nav_data(response) ==
    IF ~response.ok THEN {<<None, None>>}
    ELSE {<<Some(nav_data), Some(response.scheme_name)>> :
            nav_data \in sort_values(response.data, "date")}

\* transactions['Scheme'].unique(): the names in the order of their first row
RECURSIVE unique(_)
unique(schemes) ==
    IF schemes = <<>> THEN <<>>
    ELSE LET front == unique(SubSeq(schemes, 1, Len(schemes) - 1))
             last == schemes[Len(schemes)]
         IN  IF last \in Range(front) THEN front ELSE Append(front, last)

\* line 112, looking at the held feed only
feeds_unavailable_my(my, potential) == my = None

\* line 112: my_nav_data is None or potential_nav_data is None
feeds_unavailable(my, potential) == my = None \/ potential = None

\* line 125: transactions[transactions['Scheme'] == matched_scheme]
rows_of_scheme(txs, scheme) == SelectSeq(txs, LAMBDA row : row.Scheme = scheme)

Failure == Return(<<None, None, None>>)

InitCompare ==
    /\ call = None
    /\ ret = None
    /\ transactions \in Ledgers
    /\ pc = "fetch_my"
    /\ my_nav_data = None
    /\ my_scheme_name = None
    /\ potential_nav_data = None
    /\ potential_scheme_name = None
    /\ matched_scheme = None
    /\ input_transactions = <<>>
    /\ my_portfolio = None
    /\ transactions_potential = <<>>
    /\ result = None
    /\ events = {}

\* line 109
FetchMy ==
    /\ pc = "fetch_my"
    /\ \E response \in Responses(HeldNames) : \E out \in fetch_nav_data(response) :
          /\ my_nav_data' = out[1]
          /\ my_scheme_name' = out[2]
          /\ events' = IF response.ok THEN events
                       ELSE events \cup {"Error fetching NAV data"}
    /\ pc' = "fetch_potential"
    /\ UNCHANGED <<call, ret, transactions, potential_nav_data, potential_scheme_name,
                   matched_scheme, input_transactions, my_portfolio,
                   transactions_potential, result>>

\* line 110
FetchPotential ==
    /\ pc = "fetch_potential"
    /\ \E response \in Responses(PotentialNames) : \E out \in fetch_nav_data(response) :
          /\ potential_nav_data' = out[1]
          /\ potential_scheme_name' = out[2]
          /\ events' = IF response.ok THEN events
                       ELSE events \cup {"Error fetching NAV data"}
    /\ pc' = "check_feeds"
    /\ UNCHANGED <<call, ret, transactions, my_nav_data, my_scheme_name,
                   matched_scheme, input_transactions, my_portfolio,
                   transactions_potential, result>>

\* lines 112-113
FeedUnavailable ==
    /\ pc = "check_feeds"
    /\ feeds_unavailable(my_nav_data, potential_nav_data)
    /\ result' = Some(Failure)
    /\ pc' = "done"
    /\ UNCHANGED <<call, ret, transactions, my_nav_data, my_scheme_name,
                   potential_nav_data, potential_scheme_name, matched_scheme,
                   input_transactions, my_portfolio, transactions_potential, events>>

\* lines 115-129
MatchScheme ==
    /\ pc = "check_feeds"
    /\ ~feeds_unavailable(my_nav_data, potential_nav_data)
    /\ LET unique_schemes == unique([i \in 1..Len(transactions) |-> transactions[i].Scheme])
           matched == fuzzy_match_scheme(my_scheme_name[1], unique_schemes,
                                         default_threshold)
           rows == IF matched = None THEN <<>>
                   ELSE rows_of_scheme(transactions, matched[1])
           called == events \cup {"fuzzy_match_scheme"}
       IN  /\ matched_scheme' = matched
           /\ input_transactions' = rows
           /\ IF matched = None
              THEN /\ events' = called \cup {"No matching scheme found"}
                   /\ result' = Some(Failure)
                   /\ pc' = "done"
              ELSE IF rows = <<>>
              THEN /\ events' = called \cup {"No transactions found for the matched scheme"}
                   /\ result' = Some(Failure)
                   /\ pc' = "done"
              ELSE /\ events' = called
                   /\ result' = result
                   /\ pc' = "value_my"
    /\ UNCHANGED <<call, ret, transactions, my_nav_data, my_scheme_name,
                   potential_nav_data, potential_scheme_name, my_portfolio,
                   transactions_potential>>

\* line 131
ValueMy ==
    /\ pc = "value_my"
    /\ \E out \in calculate_portfolio_value(input_transactions, my_nav_data[1], FALSE) :
          IF out.kind = "raise"
          THEN /\ result' = Some(out)
               /\ my_portfolio' = my_portfolio
               /\ pc' = "done"
          ELSE /\ result' = result
               /\ my_portfolio' = Some(out.value)
               /\ pc' = "recompute_units"
    /\ events' = events \cup {"calculate_portfolio_value"}
    /\ UNCHANGED <<call, ret, transactions, my_nav_data, my_scheme_name,
                   potential_nav_data, potential_scheme_name, matched_scheme,
                   input_transactions, transactions_potential>>

\* lines 133-138: the exception of the first row whose lookup raises leaves
\* compare_portfolios, which catches nothing
RecomputeUnits ==
    /\ pc = "recompute_units"
    /\ LET n == Len(input_transactions)
           price == [i \in 1..n |->
                       nearest_forward(potential_nav_data[1],
                                       input_transactions[i].Transaction_Date)]
           raised == {i \in 1..n : price[i].kind = "raise"}
       IN  IF raised # {}
           THEN /\ result' = Some(price[SetMin(raised)])
                /\ transactions_potential' = transactions_potential
                /\ pc' = "done"
           ELSE /\ result' = result
                /\ transactions_potential' =
                      [i \in 1..n |->
                          [input_transactions[i] EXCEPT
                              !.Units = input_transactions[i].Gross_Amount
                                            \div price[i].value]]
                /\ pc' = "value_potential"
    /\ UNCHANGED <<call, ret, transactions, my_nav_data, my_scheme_name,
                   potential_nav_data, potential_scheme_name, matched_scheme,
                   input_transactions, my_portfolio, events>>

\* lines 139-150
ValuePotential ==
    /\ pc = "value_potential"
    /\ \E out \in calculate_portfolio_value(transactions_potential,
                                            potential_nav_data[1], TRUE) :
          IF out.kind = "raise"
          THEN result' = Some(out)
          ELSE LET my_portfolio_value == my_portfolio[1][1]
                   potential_portfolio_value == out.value[1]
                   comparison ==
                       [Input_API |-> my_scheme_name[1],
                        Input_Matched |-> matched_scheme[1],
                        Potential |-> potential_scheme_name[1],
                        Input_Portfolio_Value |-> my_portfolio_value,
                        Potential_Portfolio_Value |-> potential_portfolio_value,
                        Difference |-> potential_portfolio_value - my_portfolio_value]
               IN  result' = Some(Return(<<Some(comparison), Some(my_portfolio[1][2]),
                                           Some(out.value[2])>>))
    /\ pc' = "done"
    /\ events' = events \cup {"calculate_portfolio_value"}
    /\ UNCHANGED <<call, ret, transactions, my_nav_data, my_scheme_name,
                   potential_nav_data, potential_scheme_name, matched_scheme,
                   input_transactions, my_portfolio, transactions_potential>>

Next ==
    \/ FetchMy
    \/ FetchPotential
    \/ FeedUnavailable
    \/ MatchScheme
    \/ ValueMy
    \/ RecomputeUnits
    \/ ValuePotential

Spec == InitCompare /\ [][Next]_vars

----------------------------------------------------------------------------
(* The properties. *)

Called(fn) == call # None /\ call.fn = fn /\ ret # None
Returned(fn) == Called(fn) /\ ret[1].kind = "return"

\* the points of series at the earliest date that is not before d
EarliestFrom(series, d) ==
    {p \in Range(series) :
        /\ p.date >= d
        /\ \A q \in Range(series) : q.date >= d => p.date <= q.date}

\* the points of series at its latest date
LatestOf(series) ==
    {p \in Range(series) : \A q \in Range(series) : q.date <= p.date}

\* C1: the forward as-of lookup, in the join of calculate_portfolio_value and
\* in the per-transaction lookup of compare_portfolios, gives a point of the
\* earliest date that is not before the query date, never an earlier point,
\* and gives no point (NaN in the join, IndexError in the lookup) when the
\* query date is after the last point.
C1_ForwardAsOf ==
    /\ Returned("calculate_portfolio_value") =>
          \A i \in 1..Len(ret[1].value[2]) :
             LET row == ret[1].value[2][i]
                 earliest == EarliestFrom(call.nav_data, row.Transaction_Date)
             IN  IF earliest = {}
                 THEN row.date.isna /\ row.nav.isna
                 ELSE /\ ~row.date.isna
                      /\ ~row.nav.isna
                      /\ [date |-> row.date.val, nav |-> row.nav.val] \in earliest
    /\ Called("nearest_forward") =>
          LET earliest == EarliestFrom(call.nav_data, call.date)
          IN  IF earliest = {}
              THEN ret[1] = Raise("IndexError")
              ELSE /\ ret[1].kind = "return"
                   /\ ret[1].value \in {p.nav : p \in earliest}

\* C1's case: a transaction of date 2, a point the day before and the next
\* point two days after; the join gave the later point
C1_Witness ==
    /\ Returned("calculate_portfolio_value")
    /\ \E p \in Range(call.nav_data) : p.date = 1
    /\ \E i \in 1..Len(ret[1].value[2]) :
          /\ ret[1].value[2][i].Transaction_Date = 2
          /\ ret[1].value[2][i].date = Num(4)

\* C2: for a ledger and a series that are not empty, the rows of
\* calculate_portfolio_value hold no transaction without a point at or after
\* its date, and the total is the sum of units x current price over the
\* transactions that have one.
C2_UnmatchedExcluded ==
    (/\ Returned("calculate_portfolio_value")
     /\ call.transactions # <<>>
     /\ call.nav_data # <<>>) =>
        LET rows == ret[1].value[2]
            total == ret[1].value[1]
            matched == {i \in 1..Len(call.transactions) :
                          EarliestFrom(call.nav_data,
                                       call.transactions[i].Transaction_Date) # {}}
        IN  /\ Len(rows) = Cardinality(matched)
            /\ \A i \in 1..Len(rows) : ~rows[i].nav.isna
            /\ total = SumSeq([i \in 1..Len(rows) |->
                                 IF rows[i].nav.isna THEN 0
                                 ELSE rows[i].Units * rows[i].Current_NAV])

\* C4: for a series that is not empty, in any order, the current price of
\* every row of calculate_portfolio_value is the price of a point of the
\* latest date of the series.
C4_CurrentPriceIsLatest ==
    (/\ Returned("calculate_portfolio_value")
     /\ call.nav_data # <<>>) =>
        \A i \in 1..Len(ret[1].value[2]) :
           LET row == ret[1].value[2][i]
           IN  /\ row.Current_NAV \in {p.nav : p \in LatestOf(call.nav_data)}
               /\ row.Current_Value = row.Units * row.Current_NAV

\* C5: calculate_portfolio_value returns the total 0 and no rows, without
\* raising, when the ledger or the series is empty, whatever is_potential.
C5_EmptyInput ==
    (/\ Called("calculate_portfolio_value")
     /\ (call.transactions = <<>> \/ call.nav_data = <<>>)) =>
        ret[1] = Return(<<0, <<>>>>)

\* C5's case: a ledger with rows, a series without, the counterfactual flag set
C5_Witness ==
    /\ Called("calculate_portfolio_value")
    /\ call.transactions # <<>>
    /\ call.nav_data = <<>>
    /\ call.is_potential
    /\ ret[1] = Return(<<0, <<>>>>)

\* C6: fuzzy_match_scheme returns a candidate of the highest score when that
\* score is at least the threshold, and None when it is below it or there
\* is no candidate; never a name that is no candidate.
C6_BestMatch ==
    Called("fuzzy_match_scheme") =>
        LET candidates == Range(call.transactions_schemes)
            score(c) == token_sort_ratio(call.scheme_name, c)
            best == SetMax({score(c) : c \in candidates})
        IN  /\ ret[1].kind = "return"
            /\ IF candidates # {} /\ best >= call.threshold
               THEN /\ ret[1].value # None
                    /\ ret[1].value[1] \in candidates
                    /\ score(ret[1].value[1]) = best
               ELSE ret[1].value = None

\* C6's case: two candidates, the second one the better, its score just the
\* threshold and no exact match
C6_Witness ==
    /\ Called("fuzzy_match_scheme")
    /\ Len(call.transactions_schemes) = 2
    /\ ret[1].value = Some(call.transactions_schemes[2])
    /\ token_sort_ratio(call.scheme_name, call.transactions_schemes[2]) = call.threshold
    /\ call.threshold < 100

FeedFailed ==
    \/ pc \notin {"idle", "fetch_my"} /\ my_nav_data = None
    \/ pc \notin {"idle", "fetch_my", "fetch_potential"} /\ potential_nav_data = None

Done == pc = "done" /\ result # None
Compared == Done /\ result[1].kind = "return" /\ result[1].value[1] # None

C3_NoForwardPrice ==
    (/\ Done
     /\ matched_scheme # None
     /\ potential_nav_data # None
     /\ \E i \in 1..Len(input_transactions) :
           EarliestFrom(potential_nav_data[1],
                        input_transactions[i].Transaction_Date) = {}) =>
        /\ result[1].kind = "return"
        /\ result[1].value[1] = None

\* C8: in a comparison, difference = counterfactual value - held value; the
\* held value is the valuation of the ledger rows of the matched scheme
\* against the held series (units x latest price over the rows with a point
\* at or after their date), the counterfactual value that of the same rows
\* against the alternative series with units = gross amount / price of the
\* earliest alternative point at or after the date.
C8_Difference ==
    Compared =>
        LET comparison == result[1].value[1][1]
            held == my_nav_data[1]
            alt == potential_nav_data[1]
            rows == rows_of_scheme(transactions, comparison.Input_Matched)
            has(series, i) == EarliestFrom(series, rows[i].Transaction_Date) # {}
            first(series, i) ==
                series[SetMin({j \in 1..Len(series) :
                                  series[j].date >= rows[i].Transaction_Date})]
            held_value ==
                SumSeq([i \in 1..Len(rows) |->
                          IF has(held, i) THEN rows[i].Units * held[Len(held)].nav
                          ELSE 0])
            counterfactual_value ==
                SumSeq([i \in 1..Len(rows) |->
                          IF has(alt, i)
                          THEN (rows[i].Gross_Amount \div first(alt, i).nav)
                               * alt[Len(alt)].nav
                          ELSE 0])
        IN  /\ comparison.Difference = comparison.Potential_Portfolio_Value
                                       - comparison.Input_Portfolio_Value
            /\ comparison.Input_Portfolio_Value = held_value
            /\ comparison.Potential_Portfolio_Value = counterfactual_value

\* the point the lookup of line 136 used for each counterfactual row is the
\* point the join of calculate_portfolio_value matched to it
SamePointTwice ==
    \A i \in 1..Len(result[1].value[3][1]) :
       LET row == result[1].value[3][1][i]
       IN  /\ ~row.nav.isna
           /\ Return(row.nav.val) = nearest_forward(potential_nav_data[1],
                                                    row.Transaction_Date)
           /\ row.Original_Units = Num(row.Units)
           /\ row.Units_Difference = Num(0)

\* C9 as stated: in every comparison, also with several alternative points on
\* one date, each counterfactual row has units = original units.
C9_UnitsAgree == Compared => SamePointTwice

\* no two points of the series on one date differ in price
OnePricePerDate(series) ==
    \A p, q \in Range(series) : p.date = q.date => p.nav = q.nav

\* C9, amended: in every comparison whose alternative series has one price
\* per date, each counterfactual row has units = original units and a units
\* difference of 0.
C9_UnitsAgreeOnePricePerDate ==
    (Compared /\ OnePricePerDate(potential_nav_data[1])) => SamePointTwice

\* C9's case: two alternative points of different dates and prices, and a
\* transaction whose units were recomputed from the later one
C9_Witness ==
    /\ Compared
    /\ OnePricePerDate(potential_nav_data[1])
    /\ Len(potential_nav_data[1]) = 2
    /\ potential_nav_data[1][1].date < potential_nav_data[1][2].date
    /\ potential_nav_data[1][1].nav # potential_nav_data[1][2].nav
    /\ \E i \in 1..Len(result[1].value[3][1]) :
          /\ result[1].value[3][1][i].date = Num(potential_nav_data[1][2].date)
          /\ result[1].value[3][1][i].Units_Difference = Num(0)

\* C10: a name fuzzy_match_scheme returns is a scheme of the ledger, so the
\* ledger has rows of it and "no transactions for the matched scheme" is
\* never reported.
C10_MatchedSchemeHasRows ==
    /\ matched_scheme # None =>
          /\ \E i \in 1..Len(transactions) : transactions[i].Scheme = matched_scheme[1]
          /\ input_transactions # <<>>
    /\ "No transactions found for the matched scheme" \notin events

\* C10's case: a ledger of two schemes, one of them matched by a name that
\* is not equal to it
C10_Witness ==
    /\ pc = "value_my"
    /\ matched_scheme # None
    /\ matched_scheme # my_scheme_name
    /\ Len(input_transactions) < Len(transactions)

====
